---- MODULE Spec2Model ----
(***************************************************************************)
(* Model of sh_batch_grid_builder.geo.GeoData: construction with its       *)
(* validations, the axis aligner, the tile partitioner and                 *)
(* create_aligned_bounding_box.                                            *)
(*                                                                         *)
(* Numbers.  Python ints are unbounded and are modelled by TLA+ integers.  *)
(* Python floats are IEEE-754 binary floating point with round to nearest, *)
(* ties to even.  They are modelled with the same rounding rule and a      *)
(* significand of FloatPrec bits (binary64 has 53): a float is an integer  *)
(* count of a fixed unit whose magnitude needs at most FloatPrec           *)
(* significant bits, and each float operation computes the exact result    *)
(* and rounds it.  A quotient of two floats is kept as the rounded         *)
(* rational <<num, den>>, because the code only ever passes a quotient to  *)
(* math.floor, math.ceil or round.                                         *)
(***************************************************************************)
EXTENDS Integers, Sequences, FiniteSets, TLC

VARIABLES pc, ctorArgs, obj, err, trace, last, splitCall, alignCall

vars == <<pc, ctorArgs, obj, err, trace, last, splitCall, alignCall>>

\* Python's None, for a value that is otherwise a record
NoObject == [type |-> "NoObject"]

NoError == [type |-> "NoError"]

\* no call made yet
NoCall == [done |-> FALSE]

IdleObject ==
    /\ pc = "new"
    /\ ctorArgs = NoCall
    /\ obj = NoObject
    /\ err = NoError
    /\ trace = <<>>
    /\ last = NoCall

\* ------------------------------------------------------------------ bounds
FloatPrec == 4
MaxTotal == 12
MaxParts == 5
MaxPixelsBound == 3
CoordBound == 20

\* ------------------------------------------------------- float arithmetic
RECURSIVE Pow2(_)
Pow2(n) == IF n <= 0 THEN 1 ELSE 2 * Pow2(n - 1)

Abs(x) == IF x < 0 THEN -x ELSE x

Sign(x) == IF x < 0 THEN -1 ELSE 1

\* nearest integer to n/d (n >= 0, d > 0), ties to the even integer
RoundHalfEven(n, d) ==
    LET q == n \div d
        r == n % d
    IN  IF 2 * r > d \/ (2 * r = d /\ q % 2 = 1) THEN q + 1 ELSE q

\* the positive rational n/d rounded to FloatPrec significant bits, as the
\* rational <<num, den>>: n/d is scaled by a power of two into
\* [2^(FloatPrec-1), 2^FloatPrec), rounded to an integer, and scaled back
RECURSIVE RoundPos(_, _, _, _)
RoundPos(n, d, up, down) ==
    IF n >= Pow2(FloatPrec) * d THEN RoundPos(n, 2 * d, 2 * up, down)
    ELSE IF n < Pow2(FloatPrec - 1) * d THEN RoundPos(2 * n, d, up, 2 * down)
    ELSE <<RoundHalfEven(n, d) * up, down>>

\* fl(n/d) for d > 0
Fl(n, d) ==
    IF n = 0 THEN <<0, 1>>
    ELSE LET r == RoundPos(Abs(n), d, 1, 1) IN <<Sign(n) * r[1], r[2]>>

\* rounding of an exact result that is a whole number of units
FlInt(n) == LET r == Fl(n, 1) IN r[1] \div r[2]

IsFloat(x) == FlInt(x) = x

FAdd(x, y) == FlInt(x + y)

FSub(x, y) == FlInt(x - y)

\* int * float: the int converts exactly, the product is rounded once
FMulInt(k, x) == FlInt(k * x)

\* float / float with a positive divisor, the rounded quotient as a rational
FDiv(x, y) == Fl(x, y)

\* res / 2: halving is exact in binary floating point; resolutions are drawn
\* as even counts of the unit so the half is again a count of the unit
FHalf(x) == x \div 2

\* math.floor, math.ceil and round (ties to even) of a float quotient
Floor(q) == q[1] \div q[2]

Ceil(q) == -((-q[1]) \div q[2])

PyRound(q) == Sign(q[1]) * RoundHalfEven(Abs(q[1]), q[2])

\* math.ceil(a / b) for Python ints a, b with b # 0.  The true division is
\* correctly rounded and cannot move a non-integer quotient onto an integer
\* for pixel counts below 2^52, so the ceiling is the exact one.
CeilIntDiv(a, b) == IF b > 0 THEN -((-a) \div b) ELSE -(a \div (-b))

Max(a, b) == IF a >= b THEN a ELSE b

\* ------------------------------------------------------- GeoData helpers
align_axis(minv, maxv, origin, res) ==
    LET aligned_min == FAdd(origin, FMulInt(Floor(FDiv(FSub(minv, origin), res)), res))
        aligned_max == FAdd(origin, FMulInt(Ceil(FDiv(FSub(maxv, origin), res)), res))
        size == FSub(aligned_max, aligned_min)
        steps == Ceil(FDiv(size, res))
    IN  <<aligned_min, FAdd(aligned_min, FMulInt(steps, res))>>

\* the partitioner with the comparison off by one: one part too many gets
\* the extra pixel
split_pixel_counts_off_by_one(total, parts) ==
    LET base == total \div parts
        remainder == total % parts
    IN  [i \in 1..parts |-> IF i - 1 <= remainder THEN base + 1 ELSE base]

split_pixel_counts(total, parts) ==
    LET base == total \div parts
        remainder == total % parts
    IN  [i \in 1..parts |-> IF i - 1 < remainder THEN base + 1 ELSE base]

\* ---------------------------------------------------------- validation
ValueError(text, values) == [type |-> "ValueError", text |-> text, values |-> values]

\* NoError when both resolutions pass, else the ValueError raised
validate_resolutions(resolution_x, resolution_y) ==
    IF resolution_x <= 0
    THEN ValueError("Resolution X must be positive, got", <<resolution_x>>)
    ELSE IF resolution_y <= 0
    THEN ValueError("Resolution Y must be positive, got", <<resolution_y>>)
    ELSE NoError

\* gdf.crs.to_epsg(): <<code>>, or <<>> for a CRS without an EPSG code
to_epsg(crs) == crs.epsg

\* the CRS check without the comparison of the two codes
validate_epsg_no_comparison(gdf, epsg_code) ==
    IF ~gdf.crs.defined
    THEN [type |-> "AttributeError", text |-> "'NoneType' object has no attribute 'to_epsg'",
          values |-> <<>>]
    ELSE IF to_epsg(gdf.crs) = <<>>
    THEN ValueError("Could not determine EPSG code from input file CRS. Expected EPSG",
                    <<epsg_code>>)
    ELSE NoError

\* the message interpolates, in order: detected, declared, declared, detected
validate_epsg(gdf, epsg_code) ==
    IF ~gdf.crs.defined
    THEN [type |-> "AttributeError", text |-> "'NoneType' object has no attribute 'to_epsg'",
          values |-> <<>>]
    ELSE IF to_epsg(gdf.crs) = <<>>
    THEN ValueError("Could not determine EPSG code from input file CRS. Expected EPSG",
                    <<epsg_code>>)
    ELSE IF to_epsg(gdf.crs) # <<epsg_code>>
    THEN ValueError("Input file CRS does not match target EPSG. Please reproject the input file",
                    <<to_epsg(gdf.crs)[1], epsg_code, epsg_code, to_epsg(gdf.crs)[1]>>)
    ELSE NoError

\* gpd.read_file: the collection, or the reader's error for a file it
\* cannot open
read_geodata(filepath) ==
    IF filepath.readable
    THEN [type |-> "GeoDataFrame", crs |-> filepath.crs, total_bounds |-> filepath.bounds]
    ELSE [type |-> "DataSourceError"]

\* GeoData.__init__: the constructed object or the error raised, with the
\* steps that consumed the input before returning or raising, in order
GeoData_init(filepath, epsg_code, resolution_x, resolution_y) ==
    LET gdf == read_geodata(filepath)
        res_err == validate_resolutions(resolution_x, resolution_y)
        epsg_err == validate_epsg(gdf, epsg_code)
        raised(e, t) == [obj |-> NoObject, err |-> e, trace |-> t]
    IN  IF gdf.type # "GeoDataFrame"
        THEN raised(gdf, <<"read_geodata">>)
        ELSE IF res_err # NoError
        THEN raised(res_err, <<"read_geodata", "total_bounds", "validate_resolutions">>)
        ELSE IF epsg_err # NoError
        THEN raised(epsg_err, <<"read_geodata", "total_bounds", "validate_resolutions",
                                "validate_epsg">>)
        ELSE [obj |-> [type |-> "GeoData", gdf |-> gdf, crs |-> epsg_code,
                       bounds |-> gdf.total_bounds, resolution_x |-> resolution_x,
                       resolution_y |-> resolution_y, epsg_code |-> epsg_code],
              err |-> NoError,
              trace |-> <<"read_geodata", "total_bounds", "validate_resolutions",
                          "validate_epsg">>]

\* ------------------------------------------------------ grid origins
GridOrigins == (3035 :> <<0, 0>>) @@ (32633 :> <<3, 5>>)

\* the registered origin <<x, y>> of a CRS code, or <<>> when the lookup
\* fails
get_crs_data(crs) == IF crs \in DOMAIN GridOrigins THEN GridOrigins[crs] ELSE <<>>

\* ----------------------------------------- create_aligned_bounding_box
box(minx, miny, maxx, maxy) == <<minx, miny, maxx, maxy>>

DigitChars == <<"0", "1", "2", "3", "4", "5", "6", "7", "8", "9">>

\* str() of a non-negative int, one character per element
RECURSIVE str_int(_)
str_int(n) ==
    IF n < 10 THEN <<DigitChars[n + 1]>>
    ELSE str_int(n \div 10) \o <<DigitChars[(n % 10) + 1]>>

\* the inner loop over widths, from column i, for one row
RECURSIVE row_tiles(_, _, _, _, _, _, _)
row_tiles(widths, i, x_min, y_min, y_max, tile_h, resolution_x) ==
    IF i > Len(widths) THEN <<>>
    ELSE LET tile_w == widths[i]
             x_max == FAdd(x_min, FMulInt(tile_w, resolution_x))
         IN  <<[geometry |-> box(x_min, y_min, x_max, y_max),
                width |-> tile_w, height |-> tile_h]>>
             \o row_tiles(widths, i + 1, x_max, y_min, y_max, tile_h, resolution_x)

\* the outer loop over heights, from row j
RECURSIVE grid_tiles(_, _, _, _, _, _, _)
grid_tiles(heights, j, y_min, widths, aligned_minx, resolution_x, resolution_y) ==
    IF j > Len(heights) THEN <<>>
    ELSE LET tile_h == heights[j]
             y_max == FAdd(y_min, FMulInt(tile_h, resolution_y))
         IN  row_tiles(widths, 1, aligned_minx, y_min, y_max, tile_h, resolution_x)
             \o grid_tiles(heights, j + 1, y_max, widths, aligned_minx,
                           resolution_x, resolution_y)

\* the frame with ids numbered from 0
to_frame_zero_based(geometries) ==
    [k \in 1..Len(geometries) |->
        [id |-> k - 1, identifier |-> str_int(k - 1), width |-> geometries[k].width,
         height |-> geometries[k].height, geometry |-> geometries[k].geometry]]

\* GeoDataFrame(geometries) with id = range(1, len + 1) and identifier =
\* id.astype(str)
to_frame(geometries) ==
    [k \in 1..Len(geometries) |->
        [id |-> k, identifier |-> str_int(k), width |-> geometries[k].width,
         height |-> geometries[k].height, geometry |-> geometries[k].geometry]]

\* the tile count with the quotient truncated instead of rounded up
tiles_for_truncated(px, max_pixels) == Max(1, px \div max_pixels)

\* max(1, math.ceil(px / max_pixels))
tiles_for(px, max_pixels) == Max(1, CeilIntDiv(px, max_pixels))

\* the frame returned or the error raised, with the locals of the call
create_aligned_bounding_box(self, max_pixels) ==
    LET origin == get_crs_data(self.crs)
        origin_x == FSub(origin[1], FHalf(self.resolution_x))
        origin_y == FSub(origin[2], FHalf(self.resolution_y))
        minx == self.bounds[1]
        miny == self.bounds[2]
        maxx == self.bounds[3]
        maxy == self.bounds[4]
        ax == align_axis(minx, maxx, origin_x, self.resolution_x)
        ay == align_axis(miny, maxy, origin_y, self.resolution_y)
        width_px == PyRound(FDiv(FSub(ax[2], ax[1]), self.resolution_x))
        height_px == PyRound(FDiv(FSub(ay[2], ay[1]), self.resolution_y))
        tiles_x == tiles_for(width_px, max_pixels)
        tiles_y == tiles_for(height_px, max_pixels)
        widths == split_pixel_counts(width_px, tiles_x)
        heights == split_pixel_counts(height_px, tiles_y)
        locals == [done |-> TRUE, max_pixels |-> max_pixels, aligned |-> box(ax[1], ay[1], ax[2], ay[2]),
                   width_px |-> width_px, height_px |-> height_px]
    IN  IF origin = <<>>
        THEN [done |-> TRUE, max_pixels |-> max_pixels, status |-> "raised",
              error |-> [type |-> "OriginLookupError"]]
        ELSE IF width_px <= max_pixels /\ height_px <= max_pixels
        THEN locals @@ [status |-> "returned", split |-> FALSE,
                        records |-> to_frame(<<[geometry |-> box(ax[1], ay[1], ax[2], ay[2]),
                                                width |-> width_px, height |-> height_px]>>)]
        ELSE IF max_pixels = 0
        THEN locals @@ [status |-> "raised", error |-> [type |-> "ZeroDivisionError"]]
        ELSE locals @@ [status |-> "returned", split |-> TRUE,
                        tiles_x |-> tiles_x, tiles_y |-> tiles_y,
                        widths |-> widths, heights |-> heights,
                        records |-> to_frame(grid_tiles(heights, 1, ay[1], widths, ax[1],
                                                        self.resolution_x, self.resolution_y))]

\* ------------------------------------------------- inputs of the model
EpsgCodes == {3035, 32633, 4326}

XCoords == {-12, -1, 0, 5, 18}

YCoords == {-1, 0, 4}

Crs == {[defined |-> TRUE, epsg |-> <<c>>] : c \in EpsgCodes}
       \cup {[defined |-> TRUE, epsg |-> <<>>], [defined |-> FALSE]}

Files ==
    {[readable |-> FALSE]} \cup
    {[readable |-> TRUE, crs |-> c, bounds |-> <<x1, y1, x2, y2>>] :
        c \in Crs, x1 \in XCoords, x2 \in XCoords, y1 \in YCoords, y2 \in YCoords}

ValidFiles == {f \in Files : f.readable => f.bounds[1] <= f.bounds[3] /\ f.bounds[2] <= f.bounds[4]}

ResolutionsX == {-2, 0, 2, 6}

ResolutionsY == {0, 2}

MaxPixelsArgs == (-1)..MaxPixelsBound

\* ------------------------------------------------ the object's life
Init ==
    /\ IdleObject
    /\ splitCall = NoCall
    /\ alignCall = NoCall

Construct ==
    /\ pc = "new"
    /\ \E f \in ValidFiles, e \in EpsgCodes, rx \in ResolutionsX, ry \in ResolutionsY :
          LET r == GeoData_init(f, e, rx, ry) IN
          /\ ctorArgs' = [done |-> TRUE, filepath |-> f, epsg_code |-> e,
                          resolution_x |-> rx, resolution_y |-> ry]
          /\ obj' = r.obj
          /\ err' = r.err
          /\ trace' = r.trace
          /\ pc' = IF r.err = NoError THEN "ready" ELSE "failed"
    /\ UNCHANGED <<last, splitCall, alignCall>>

CreateAlignedBoundingBox ==
    /\ pc = "ready"
    /\ \E max_pixels \in MaxPixelsArgs :
          last' = create_aligned_bounding_box(obj, max_pixels)
    /\ UNCHANGED <<pc, ctorArgs, obj, err, trace, splitCall, alignCall>>

Next == Construct \/ CreateAlignedBoundingBox

Spec == Init /\ [][Next]_vars

\* floats the pure functions are exercised on
Coords == {v \in -CoordBound..CoordBound : IsFloat(v)}

AxisOrigins == {-1, 0, 3, 5}

AxisResolutions == {1, 2, 3, 4, 6}

\* ------------------------------------- _split_pixel_counts on its own
InitSplit ==
    /\ IdleObject
    /\ alignCall = NoCall
    /\ splitCall \in {[done |-> FALSE, total |-> t, parts |-> p, out |-> <<>>] :
                         t \in 0..MaxTotal, p \in 1..MaxParts}

SplitPixelCounts ==
    /\ ~splitCall.done
    /\ splitCall' = [splitCall EXCEPT !.done = TRUE,
                        !.out = split_pixel_counts(splitCall.total, splitCall.parts)]
    /\ UNCHANGED <<pc, ctorArgs, obj, err, trace, last, alignCall>>

NextSplit == SplitPixelCounts

SpecSplit == InitSplit /\ [][NextSplit]_vars

\* --------------------------------------------- _align_axis on its own
InitAlign ==
    /\ IdleObject
    /\ splitCall = NoCall
    /\ alignCall \in {[done |-> FALSE, again |-> FALSE, minv |-> a, maxv |-> b,
                       origin |-> o, res |-> r, out |-> <<>>, out2 |-> <<>>] :
                         a \in Coords, b \in Coords, o \in AxisOrigins,
                         r \in AxisResolutions}
    /\ alignCall.minv <= alignCall.maxv

AlignAxis ==
    /\ ~alignCall.done
    /\ alignCall' = [alignCall EXCEPT !.done = TRUE,
                        !.out = align_axis(alignCall.minv, alignCall.maxv,
                                           alignCall.origin, alignCall.res)]
    /\ UNCHANGED <<pc, ctorArgs, obj, err, trace, last, splitCall>>

\* the aligner applied to its own output, same origin and resolution
ReAlignAxis ==
    /\ alignCall.done
    /\ ~alignCall.again
    /\ alignCall' = [alignCall EXCEPT !.again = TRUE,
                        !.out2 = align_axis(alignCall.out[1], alignCall.out[2],
                                            alignCall.origin, alignCall.res)]
    /\ UNCHANGED <<pc, ctorArgs, obj, err, trace, last, splitCall>>

NextAlign == AlignAxis \/ ReAlignAxis

SpecAlign == InitAlign /\ [][NextAlign]_vars

\* ------------------------------------------------------------- claims
RECURSIVE SumSeq(_)
SumSeq(s) == IF s = <<>> THEN 0 ELSE Head(s) + SumSeq(Tail(s))

\* C9: _split_pixel_counts(total, parts) returns exactly `parts` integers
\* that sum to total; the first (total mod parts) of them are
\* (total div parts) + 1 and the others (total div parts), so the entries
\* never increase, differ by at most 1, and none is zero when total >= parts.
C9_SplitShape ==
    splitCall.done =>
        LET t == splitCall.total
            p == splitCall.parts
            out == splitCall.out
        IN  /\ DOMAIN out = 1..p
            /\ \A i \in 1..p : out[i] \in Int
            /\ SumSeq(out) = t
            /\ \A i \in 1..p : out[i] = IF i <= t % p THEN (t \div p) + 1 ELSE t \div p
            /\ \A i \in 1..(p - 1) : out[i] >= out[i + 1]
            /\ \A i, j \in 1..p : out[i] - out[j] <= 1
            /\ (t >= p => \A i \in 1..p : out[i] # 0)

C9_Witness ==
    /\ splitCall.done
    /\ splitCall.total = 10
    /\ splitCall.parts = 3
    /\ splitCall.out = <<4, 3, 3>>

OnGrid(v, origin, res) == (v - origin) % res = 0

\* C3: _align_axis returns aligned_min <= min <= max <= aligned_max, both
\* on grid lines origin + k*res, with aligned_max - aligned_min an exact
\* integer multiple of res.
C3_GridSnap ==
    alignCall.done =>
        LET a == alignCall IN
        /\ a.out[1] <= a.minv
        /\ a.maxv <= a.out[2]
        /\ OnGrid(a.out[1], a.origin, a.res)
        /\ OnGrid(a.out[2], a.origin, a.res)
        /\ (a.out[2] - a.out[1]) % a.res = 0

\* C10: aligning the output of _align_axis again, with the same origin and
\* resolution, returns it unchanged.
C10_Idempotent ==
    alignCall.done /\ alignCall.again => alignCall.out2 = alignCall.out

\* ------------------------------------------ claims about the object
Returned == last.done /\ last.status = "returned"

Records == last.records

\* the record emitted for row r and column c (both from 0) of a split result
TileAt(r, c) == Records[r * last.tiles_x + c + 1]

\* C1: every record returned for max_pixels >= 1, split or not, has
\* width <= max_pixels and height <= max_pixels.
C1_WithinMaxPixels ==
    Returned /\ last.max_pixels >= 1 =>
        \A k \in 1..Len(Records) :
            /\ Records[k].width <= last.max_pixels
            /\ Records[k].height <= last.max_pixels

C1_Witness ==
    /\ Returned
    /\ last.split
    /\ last.max_pixels >= 2
    /\ last.tiles_x >= 2
    /\ last.tiles_y >= 2
    /\ \E k \in 1..Len(Records) : Records[k].width = last.max_pixels
    /\ \E k \in 1..Len(Records) : Records[k].width < last.max_pixels

\* C2: in every split result, each row starts at aligned_minx, each next
\* tile starts exactly where the previous one ends, and the row ends at
\* aligned_maxx; the rows likewise run from aligned_miny to aligned_maxy.
C2_ExactCoverage ==
    Returned /\ last.split =>
        \A r \in 0..(last.tiles_y - 1) : \A c \in 0..(last.tiles_x - 1) :
            LET g == TileAt(r, c).geometry IN
            /\ g[1] = IF c = 0 THEN last.aligned[1] ELSE TileAt(r, c - 1).geometry[3]
            /\ g[2] = IF r = 0 THEN last.aligned[2] ELSE TileAt(r - 1, c).geometry[4]
            /\ (c = last.tiles_x - 1 => g[3] = last.aligned[3])
            /\ (r = last.tiles_y - 1 => g[4] = last.aligned[4])

\* C4: a call with max_pixels <= 0 ends in an invalid-configuration error
\* and returns no records.
C4_NonPositiveRejected ==
    last.done /\ last.max_pixels <= 0 =>
        /\ last.status = "raised"
        /\ last.error.type = "ValueError"

\* C5: every record returned for max_pixels >= 1 has an integer width >= 1
\* and an integer height >= 1.
C5_PositivePixels ==
    Returned /\ last.max_pixels >= 1 =>
        \A k \in 1..Len(Records) :
            /\ Records[k].width \in Int /\ Records[k].width >= 1
            /\ Records[k].height \in Int /\ Records[k].height >= 1

DigitValue(ch) == CHOOSE d \in 0..9 : DigitChars[d + 1] = ch

\* the number a string of decimal digits denotes
RECURSIVE ParseDecimal(_)
ParseDecimal(s) ==
    IF s = <<>> THEN 0
    ELSE 10 * ParseDecimal(SubSeq(s, 1, Len(s) - 1)) + DigitValue(s[Len(s)])

IsDecimalOf(s, n) ==
    /\ Len(s) >= 1
    /\ \A i \in 1..Len(s) : \E d \in 0..9 : DigitChars[d + 1] = s[i]
    /\ (Len(s) > 1 => s[1] # "0")
    /\ ParseDecimal(s) = n

\* C8: the ids of a result are 1..n in emission order and each identifier
\* is the decimal string of its id; in a split result n = tiles_x * tiles_y
\* and the record with id r*tiles_x + c + 1 is the tile of row r (from the
\* bottom) and column c (from the left), of width widths[c] and height
\* heights[r].
C8_IdsRowMajor ==
    Returned =>
        /\ \A k \in 1..Len(Records) :
              Records[k].id = k /\ IsDecimalOf(Records[k].identifier, Records[k].id)
        /\ (~last.split => Len(Records) = 1)
        /\ (last.split =>
              /\ Len(Records) = last.tiles_x * last.tiles_y
              /\ \A r \in 0..(last.tiles_y - 1) : \A c \in 0..(last.tiles_x - 1) :
                    LET t == TileAt(r, c) IN
                    /\ t.id = r * last.tiles_x + c + 1
                    /\ t.width = last.widths[c + 1]
                    /\ t.height = last.heights[r + 1]
                    /\ t.geometry[1] = (IF c = 0 THEN last.aligned[1]
                                        ELSE TileAt(r, c - 1).geometry[3])
                    /\ t.geometry[2] = (IF r = 0 THEN last.aligned[2]
                                        ELSE TileAt(r - 1, c).geometry[4])
                    /\ t.geometry[3] = FAdd(t.geometry[1], FMulInt(t.width, obj.resolution_x))
                    /\ t.geometry[4] = FAdd(t.geometry[2], FMulInt(t.height, obj.resolution_y)))

C8_Witness ==
    /\ Returned
    /\ last.split
    /\ last.tiles_x >= 2
    /\ last.tiles_y >= 2
    /\ Len(Records) >= 10
    /\ last.widths[1] # last.widths[last.tiles_x]
    /\ Records[Len(Records)].identifier = <<"1", "0">>

ConstructedWith == ctorArgs.done

ResolutionError ==
    IF ctorArgs.resolution_x <= 0
    THEN ValueError("Resolution X must be positive, got", <<ctorArgs.resolution_x>>)
    ELSE ValueError("Resolution Y must be positive, got", <<ctorArgs.resolution_y>>)

\* steps that consume the input collection: its extent, its CRS
ConsumingSteps == {"total_bounds", "validate_epsg"}

\* C6: construction from a readable input with a resolution <= 0 always fails with the error that
\* names the offending axis and value, and nothing consumes the input
\* collection before the resolution check.
C6_ResolutionCheckedFirst ==
    /\ ConstructedWith
    /\ ctorArgs.filepath.readable
    /\ (ctorArgs.resolution_x <= 0 \/ ctorArgs.resolution_y <= 0)
    =>
        /\ obj = NoObject
        /\ err = ResolutionError
        /\ \A i \in 1..Len(trace) :
              trace[i] \in ConsumingSteps =>
                  \E j \in 1..(i - 1) : trace[j] = "validate_resolutions"

CrsMismatch ==
    /\ ConstructedWith
    /\ ctorArgs.filepath.readable
    /\ ctorArgs.filepath.crs.defined
    /\ ctorArgs.filepath.crs.epsg # <<>>
    /\ ctorArgs.filepath.crs.epsg # <<ctorArgs.epsg_code>>

\* the error is the CRS-mismatch error and carries both codes
ReportsMismatch ==
    /\ err.type = "ValueError"
    /\ err.text = "Input file CRS does not match target EPSG. Please reproject the input file"
    /\ \E i \in 1..Len(err.values) : err.values[i] = ctorArgs.filepath.crs.epsg[1]
    /\ \E i \in 1..Len(err.values) : err.values[i] = ctorArgs.epsg_code

NothingProduced ==
    /\ obj = NoObject
    /\ pc = "failed"
    /\ \A i \in 1..Len(trace) : trace[i] # "to_crs"

\* C7 as stated: whenever the detected CRS code differs from the declared
\* one, construction fails with the CRS-mismatch error reporting both codes,
\* whatever the other arguments; no object is produced, nothing reprojected.
C7_MismatchAlways == CrsMismatch => ReportsMismatch /\ NothingProduced

\* C7 amended: whenever the detected CRS code differs from the declared one,
\* no object is produced and nothing is reprojected; the error is the
\* CRS-mismatch error reporting both codes when both resolutions are
\* positive, and the resolution error otherwise.
C7_MismatchAfterResolutions ==
    CrsMismatch =>
        /\ NothingProduced
        /\ IF ctorArgs.resolution_x > 0 /\ ctorArgs.resolution_y > 0
           THEN ReportsMismatch
           ELSE err = ResolutionError

C7_Witness ==
    /\ CrsMismatch
    /\ ctorArgs.resolution_x > 0
    /\ ctorArgs.resolution_y > 0
    /\ ctorArgs.filepath.crs.epsg = <<4326>>
    /\ ctorArgs.epsg_code = 3035
    /\ err.values = <<4326, 3035, 3035, 4326>>

====
